---- MODULE Spec2Model ----
(***************************************************************************)
(* A model of imdb_scraper.py: the lookup client (search_series,           *)
(* get_series_rating, get_series_rating_by_name), the tabular store        *)
(* (save_to_excel) and the command line driver (main).                     *)
(*                                                                         *)
(* Text is a sequence of one-character strings, so that len(), strip(),    *)
(* split() and join() are computed as Python computes them.  A Python      *)
(* value that may be None is <<>> (None) or <<v>> (the value v).           *)
(***************************************************************************)
EXTENDS Integers, Sequences, FiniteSets, TLC

VARIABLES pc, args, series_list, idx, search_results, result, file, saved, last, log

vars == <<pc, args, series_list, idx, search_results, result, file, saved, last, log>>

(***************************************************************************)
(* Bounds of the model and constants of the program.                       *)
(***************************************************************************)
MaxItems == 6
MaxGenresOnPage == 4
MaxArgs == 2
MaxCellLen == 51

MaxResults == 5
MaxGenres == 3
WidthCap == 50
WidthPad == 2

(***************************************************************************)
(* Python values and text helpers.                                         *)
(***************************************************************************)
None == <<>>
Some(v) == <<v>>

Whitespace == {" "}

Take(s, n) == SubSeq(s, 1, IF Len(s) < n THEN Len(s) ELSE n)

RECURSIVE LStrip(_)
LStrip(s) == IF s # <<>> /\ Head(s) \in Whitespace THEN LStrip(Tail(s)) ELSE s

RECURSIVE RStrip(_)
RStrip(s) ==
  IF s # <<>> /\ s[Len(s)] \in Whitespace THEN RStrip(SubSeq(s, 1, Len(s) - 1)) ELSE s

\* str.strip()
Strip(s) == RStrip(LStrip(s))

\* s.split(c)[0]: the text before the first c, all of s when c is not in it
RECURSIVE SplitFirst(_, _)
SplitFirst(s, c) ==
  IF s = <<>> \/ Head(s) = c THEN <<>> ELSE <<Head(s)>> \o SplitFirst(Tail(s), c)

\* s.split(c): the pieces of s between the occurrences of c
RECURSIVE Split(_, _)
Split(s, c) ==
  LET first == SplitFirst(s, c)
  IN IF Len(first) = Len(s) THEN <<first>>
     ELSE <<first>> \o Split(SubSeq(s, Len(first) + 2, Len(s)), c)

\* sep.join(parts)
RECURSIVE Join(_, _)
Join(sep, parts) ==
  IF parts = <<>> THEN <<>>
  ELSE IF Len(parts) = 1 THEN parts[1]
  ELSE parts[1] \o sep \o Join(sep, Tail(parts))

\* all sequences over S of length at most n
RECURSIVE SeqUpTo(_, _)
SeqUpTo(S, n) ==
  IF n = 0 THEN {<<>>}
  ELSE LET shorter == SeqUpTo(S, n - 1)
       IN shorter \cup {Append(s, x) : s \in {t \in shorter : Len(t) = n - 1}, x \in S}

base_url == <<"h","t","t","p","s",":","/","/","w","w","w",".","i","m","d","b",".","c","o","m">>
NA == <<"N","/","A">>
UnknownTitle == <<"U","n","k","n","o","w","n"," ","T","i","t","l","e">>

(***************************************************************************)
(* search_series: the parsed search page is the sequence of its            *)
(* li.ipc-metadata-list-summary-item elements; each has a title link       *)
(* (title_element) or not, and a title link has an href or not.            *)
(***************************************************************************)
Href1 == <<"/","t","t","1","/","?","r","=","1">>
Href2 == <<"/","t","t","2","/">>
Link1 == <<"/","t","t","1","/">>
Link2 == Href2
Url1 == base_url \o Link1
Url2 == base_url \o Link2

NoLinkItem == [title_element |-> None]
ItemA == [title_element |-> Some([text |-> <<" ","A"," ">>, href |-> Some(Href1)])]
ItemB == [title_element |-> Some([text |-> <<"B">>, href |-> Some(Href2)])]
NoHrefItem == [title_element |-> Some([text |-> <<"C">>, href |-> None])]
Items == {NoLinkItem, ItemA, ItemB, NoHrefItem}

\* the request (or raise_for_status, or the parser) raised / the parsed page
FailedResponse == [ok |-> FALSE]
SearchPage(items) == [ok |-> TRUE, items |-> items]
SearchResponses == {FailedResponse} \cup {SearchPage(s) : s \in SeqUpTo(Items, MaxItems)}

\* the loop body of lines 51-60 for one item; <<>> when the item is skipped
ParseItem(item) ==
  IF item.title_element = None THEN <<>>
  ELSE LET title_element == item.title_element[1]
           title == Strip(title_element.text)
           link == SplitFirst(title_element.href[1], "?")
       IN <<[title |-> title, url |-> base_url \o link]>>

\* title_element['href'] raises KeyError
Raises(item) == item.title_element # None /\ item.title_element[1].href = None

RECURSIVE ParseItems(_)
ParseItems(items) ==
  IF items = <<>> THEN <<>> ELSE ParseItem(Head(items)) \o ParseItems(Tail(items))

SlicedItemsMutant(result_items) == result_items
SlicedItems(result_items) == Take(result_items, MaxResults)

search_series(response) ==
  IF ~response.ok THEN None
  ELSE LET result_items == response.items
           sliced == SlicedItems(result_items)
       IN IF \E i \in 1..Len(sliced) : Raises(sliced[i]) THEN None
          ELSE LET results == ParseItems(sliced)
               IN IF results # <<>> THEN Some(results) ELSE None

(***************************************************************************)
(* get_series_rating: the parsed detail page is what the three selectors   *)
(* find: the rating element, the title element, the genre chips.           *)
(***************************************************************************)
Drama == <<"D","r","a","m","a">>
Crime == <<"C","r","i","m","e">>
GenreTexts == {Drama, Crime}
RatingTexts == {<<"8",".","5">>, <<" ","9",".","0"," ">>}
TitleTexts == {<<"A">>, <<"B"," ">>}

DetailPage(r, t, g) ==
  [ok |-> TRUE, rating_element |-> r, title_element |-> t, genre_elements |-> g]
DetailResponses ==
  {FailedResponse} \cup
  {DetailPage(r, t, g) : r \in {None} \cup {Some(x) : x \in RatingTexts},
                         t \in {None} \cup {Some(x) : x \in TitleTexts},
                         g \in SeqUpTo(GenreTexts, MaxGenresOnPage)}

GenresMutant(genre_elements) ==
  IF genre_elements # <<>> THEN Join(<<",", " ">>, genre_elements) ELSE NA
Genres(genre_elements) ==
  IF genre_elements # <<>> THEN Join(<<",", " ">>, Take(genre_elements, MaxGenres)) ELSE NA

RatingOfMutant(rating_element) ==
  IF rating_element # None THEN Strip(rating_element[1]) ELSE None
RatingOf(rating_element) ==
  IF rating_element # None THEN Strip(rating_element[1]) ELSE NA

TitleOf(title_element) ==
  IF title_element # None THEN title_element[1] ELSE UnknownTitle

get_series_rating(series_url, response) ==
  IF ~response.ok THEN None
  ELSE Some([title |-> TitleOf(response.title_element),
             rating |-> RatingOf(response.rating_element),
             url |-> series_url,
             genres |-> Genres(response.genre_elements)])

(***************************************************************************)
(* save_to_excel.  The spreadsheet file is None (absent) or the workbook   *)
(* it holds: the rows of the active sheet (row 1 first, a row being its    *)
(* four cell values) and the four column widths.  io is what the file      *)
(* system does to load_workbook and wb.save: "ok", or "error" (they        *)
(* raise).  The result is the file afterwards, the value returned and      *)
(* whether wb.save wrote the file.                                         *)
(***************************************************************************)
Header == << <<"T","i","t","l","e">>, <<"R","a","t","i","n","g">>,
             <<"G","e","n","r","e","s">>, <<"U","R","L">> >>

IO == {"ok", "error"}

NewRow(data) == <<data.title, data.rating, data.genres, data.url>>

\* line 121: the URL column of rows 2 and below
ExistingUrls(rows) == [i \in 1..(Len(rows) - 1) |-> rows[i + 1][4]]

InSeq(x, s) == \E i \in 1..Len(s) : s[i] = x

AlreadyExistsMutant(url, rows) == FALSE
AlreadyExistsLastRowMutant(url, rows) == Len(rows) > 1 /\ rows[Len(rows)][4] = url
AlreadyExists(url, rows) == InSeq(url, ExistingUrls(rows))

\* lines 166-174: the longest str(cell.value) of the cells with a truthy value
MaxLength(cells) ==
  LET lens == {Len(cells[i]) : i \in {j \in 1..Len(cells) : cells[j] # <<>>}}
  IN IF lens = {} THEN 0 ELSE CHOOSE m \in lens : \A n \in lens : n <= m

\* line 175
AdjustedWidth(max_length) ==
  IF max_length < WidthCap THEN max_length + WidthPad ELSE WidthCap

Column(rows, c) == [i \in 1..Len(rows) |-> rows[i][c]]

Widths(rows) == [c \in 1..4 |-> AdjustedWidth(MaxLength(Column(rows, c)))]

AppendedMutant(rows, row) == <<rows[1], row>> \o Tail(rows)
Appended(rows, row) == Append(rows, row)

Unsaved(f) == [file |-> f, ret |-> FALSE, wrote |-> FALSE]

save_to_excel(f, data, io) ==
  IF io = "error" THEN Unsaved(f)
  ELSE IF data = None THEN Unsaved(f)
  ELSE IF f # None /\ AlreadyExists(data[1].url, f[1].rows) THEN Unsaved(f)
  ELSE LET old == IF f # None THEN f[1].rows ELSE <<Header>>
           rows == Appended(old, NewRow(data[1]))
       IN [file |-> Some([rows |-> rows, widths |-> Widths(rows)]),
           ret |-> TRUE, wrote |-> TRUE]

(***************************************************************************)
(* The store on its own: any sequence of save_to_excel calls on a file     *)
(* that is absent at first.  saved is the history of the records whose     *)
(* save returned True, last is the last call.                              *)
(***************************************************************************)
Url3 == base_url \o <<"/","t","t","3","/">>
Rating85 == <<"8",".","5">>
Record(t, u) == [title |-> t, rating |-> Rating85, genres |-> Drama, url |-> u]
StoreRecords == {Record(t, u) : t \in {<<"A">>, <<"B"," ">>}, u \in {Url1, Url2, Url3}}

SaveCall(data, io) ==
  LET r == save_to_excel(file, data, io)
  IN /\ file' = r.file
     /\ saved' = IF r.ret THEN Append(saved, data[1]) ELSE saved
     /\ last' = [op |-> "save_to_excel", data |-> data, before |-> file,
                 saved_before |-> saved, ret |-> r.ret, wrote |-> r.wrote]
     /\ UNCHANGED <<pc, args, series_list, idx, search_results, result, log>>

Idle ==
  /\ pc = "idle" /\ args = None /\ series_list = <<>> /\ idx = 0
  /\ search_results = None /\ result = None /\ log = <<>>
  /\ file = None /\ saved = <<>> /\ last = [op |-> "none"]

StoreSave == \E data \in StoreRecords, io \in IO : SaveCall(Some(data), io)

InitStore == Idle
NextStore == StoreSave
SpecStore == InitStore /\ [][NextStore]_vars

\* the store with one series whose title has every length up to MaxCellLen
XText(n) == [i \in 1..n |-> "x"]
WideRecords == {Record(XText(n), Url1) : n \in 1..MaxCellLen}

WidthSave == \E data \in WideRecords, io \in IO : SaveCall(Some(data), io)

InitWidth == Idle
NextWidth == WidthSave
SpecWidth == InitWidth /\ [][NextWidth]_vars

(***************************************************************************)
(* The lookup functions on their own: one call on any response.            *)
(***************************************************************************)
SearchCall ==
  /\ last.op = "none"
  /\ \E response \in SearchResponses :
       last' = [op |-> "search_series", response |-> response,
                ret |-> search_series(response)]
  /\ UNCHANGED <<pc, args, series_list, idx, search_results, result, file, saved, log>>

InitSearch == Idle
NextSearch == SearchCall
SpecSearch == InitSearch /\ [][NextSearch]_vars

DetailCall ==
  /\ last.op = "none"
  /\ \E response \in DetailResponses, series_url \in {Url1, Url2} :
       last' = [op |-> "get_series_rating", url |-> series_url, response |-> response,
                ret |-> get_series_rating(series_url, response)]
  /\ UNCHANGED <<pc, args, series_list, idx, search_results, result, file, saved, log>>

InitDetail == Idle
NextDetail == DetailCall
SpecDetail == InitDetail /\ [][NextDetail]_vars

(***************************************************************************)
(* main, with get_series_rating_by_name as its two requests.  args.series  *)
(* is the list of command line words, args.multiple the --multiple flag.   *)
(* log is the history of the calls made: the name's index in series_list,  *)
(* what was called and what it returned.                                   *)
(***************************************************************************)
ArgWords == {<<"a">>, <<" ", "b">>, <<",">>, <<"a", ",">>}
Args ==
  {[series |-> w, multiple |-> m] : w \in SeqUpTo(ArgWords, MaxArgs) \ {<<>>},
                                    m \in BOOLEAN}

DriverSearchResponses ==
  {FailedResponse, SearchPage(<<>>), SearchPage(<<NoHrefItem>>),
   SearchPage(<<ItemA>>), SearchPage(<<NoLinkItem, ItemB, ItemA>>)}
DriverDetailResponses ==
  {FailedResponse, DetailPage(None, None, <<>>),
   DetailPage(Some(<<"8",".","5">>), Some(<<"A">>), <<Drama, Crime>>)}

\* lines 198-199 (multiple mode) and line 215 (one name)
StripAll(names) == [i \in 1..Len(names) |-> Strip(names[i])]

SeriesListMutant(a) ==
  IF a.multiple THEN Split(Join(<<" ">>, a.series), ",") ELSE <<Join(<<" ">>, a.series)>>
SeriesList(a) ==
  IF a.multiple THEN StripAll(Split(Join(<<" ">>, a.series), ","))
  ELSE <<Join(<<" ">>, a.series)>>

\* line 102: not search_results
NoResults(sr) == sr = None \/ sr[1] = <<>>

\* lines 204 and 218: if result
ShouldSaveMutant(r) == TRUE
ShouldSave(r) == r # None

\* where main goes once the lookup of a name has returned r
AfterLookupMutant(r) == "next"
AfterLookup(r) == IF ShouldSave(r) THEN "save" ELSE "next"

\* the loop of line 202 moves to the next name, or main returns
Goto(where) ==
  IF where = "next"
  THEN IF idx < Len(series_list)
       THEN pc' = "search" /\ idx' = idx + 1
       ELSE pc' = "done" /\ idx' = idx
  ELSE pc' = where /\ idx' = idx

Main ==
  /\ pc = "main"
  /\ series_list' = SeriesList(args)
  /\ idx' = 1
  /\ pc' = "search"
  /\ UNCHANGED <<args, search_results, result, file, saved, last, log>>

\* get_series_rating_by_name, lines 100-104: the search request
Search ==
  /\ pc = "search"
  /\ \E response \in DriverSearchResponses :
       LET sr == search_series(response)
       IN /\ search_results' = sr
          /\ log' = Append(log, [op |-> "search", i |-> idx, q |-> series_list[idx],
                                 ret |-> sr])
          /\ IF NoResults(sr)
             THEN result' = None /\ Goto(AfterLookup(None))
             ELSE result' = result /\ Goto("detail")
  /\ UNCHANGED <<args, series_list, file, saved, last>>

\* get_series_rating_by_name, line 111: the detail request for the first result
Detail ==
  /\ pc = "detail"
  /\ \E response \in DriverDetailResponses :
       LET series_url == search_results[1][1].url
           r == get_series_rating(series_url, response)
       IN /\ result' = r
          /\ log' = Append(log, [op |-> "detail", i |-> idx, url |-> series_url,
                                 ret |-> r])
          /\ Goto(AfterLookup(r))
  /\ UNCHANGED <<args, series_list, search_results, file, saved, last>>

\* lines 213 and 227
Save ==
  /\ pc = "save"
  /\ \E io \in IO :
       LET r == save_to_excel(file, result, io)
       IN /\ file' = r.file
          /\ log' = Append(log, [op |-> "save", i |-> idx, data |-> result,
                                 ret |-> r.ret])
  /\ Goto("next")
  /\ UNCHANGED <<args, series_list, search_results, result, saved, last>>

Init ==
  /\ pc = "main" /\ args \in Args /\ series_list = <<>> /\ idx = 0
  /\ search_results = None /\ result = None /\ log = <<>>
  /\ file = None /\ saved = <<>> /\ last = [op |-> "none"]

Next == Main \/ Search \/ Detail \/ Save
Spec == Init /\ [][Next]_vars

(***************************************************************************)
(* Properties of search_series (under SpecSearch).                         *)
(***************************************************************************)
Min(a, b) == IF a < b THEN a ELSE b

\* what the page shows for a listing item that has a title link
Shown(item) ==
  IF item = ItemA THEN [title |-> <<"A">>, url |-> Url1]
  ELSE [title |-> <<"B">>, url |-> Url2]

HasLink(item) == item.title_element # None
Parseable(items) == \A i \in 1..Len(items) : items[i] # NoHrefItem
LinkedAt(items, S) == {i \in S : i <= Len(items) /\ HasLink(items[i])}
Rank(S, i) == Cardinality({j \in S : j <= i})

\* ret lists the items at the positions S, in page order
Lists(ret, items, S) ==
  /\ Len(ret) = Cardinality(S)
  /\ \A i \in S : ret[Rank(S, i)] = Shown(items[i])

\* the first min(n, k) elements of the set of positions S
FirstOf(S, n) == {i \in S : Rank(S, i) <= n}

ShownRating(text) == IF text = <<"8",".","5">> THEN <<"8",".","5">> ELSE <<"9",".","0">>

\* the first min(n, 3) genre chips joined by ", ", spelled out
ShownGenres(g) ==
  IF Len(g) = 1 THEN g[1]
  ELSE IF Len(g) = 2 THEN g[1] \o <<",", " ">> \o g[2]
  ELSE g[1] \o <<",", " ">> \o g[2] \o <<",", " ">> \o g[3]

Count(s, c) == Cardinality({i \in 1..Len(s) : s[i] = c})

\* C5: a detail page fetched successfully always yields a record, with the
\* sentinel for each absent field, the page's value for each present field and
\* the requested URL; None is returned exactly when the request fails.
C5_SentinelsNotFailure ==
  last.op = "get_series_rating" =>
    IF ~last.response.ok THEN last.ret = None
    ELSE LET page == last.response
         IN /\ last.ret # None
            /\ last.ret[1].url = last.url
            /\ last.ret[1].rating =
                 IF page.rating_element = None THEN <<"N","/","A">>
                 ELSE ShownRating(page.rating_element[1])
            /\ last.ret[1].title =
                 IF page.title_element = None
                 THEN <<"U","n","k","n","o","w","n"," ","T","i","t","l","e">>
                 ELSE page.title_element[1]
            /\ last.ret[1].genres =
                 IF page.genre_elements = <<>> THEN <<"N","/","A">>
                 ELSE ShownGenres(page.genre_elements)

\* a page with no rating element and no genre chips, with a title
C5_Witness ==
  /\ last.op = "get_series_rating"
  /\ last.response.ok
  /\ last.response.rating_element = None
  /\ last.response.genre_elements = <<>>
  /\ last.response.title_element # None
  /\ last.ret # None
  /\ last.ret[1].rating = <<"N","/","A">>
  /\ last.ret[1].title = last.response.title_element[1]

\* C10: the genres string is the first min(n, 3) genre chips of the page in page
\* order, joined by ", ": it has exactly min(n, 3) entries when n >= 1 and is
\* "N/A" when n = 0.
C10_FirstThreeGenres ==
  (last.op = "get_series_rating" /\ last.response.ok) =>
    LET g == last.response.genre_elements
        genres == last.ret[1].genres
    IN IF Len(g) = 0 THEN genres = <<"N","/","A">>
       ELSE /\ genres = ShownGenres(g)
            /\ Count(genres, ",") + 1 = Min(Len(g), 3)

\* a page of 4 genre chips: the string has the first 3
C10_Witness ==
  /\ last.op = "get_series_rating"
  /\ last.response.ok
  /\ Len(last.response.genre_elements) = 4
  /\ last.response.genre_elements[4] # last.response.genre_elements[3]
  /\ Count(last.ret[1].genres, ",") = 2

(***************************************************************************)
(* Properties of the store (under SpecStore, C9 under SpecWidth).          *)
(***************************************************************************)
DataRows(f) == IF f = None THEN <<>> ELSE Tail(f[1].rows)
RowOf(r) == <<r.title, r.rating, r.genres, r.url>>
UrlsOf(records) == {records[k].url : k \in 1..Len(records)}

\* C1: the URL column values of the data rows are pairwise distinct.
C1_UniqueUrls ==
  LET rows == DataRows(file)
  IN \A i, j \in 1..Len(rows) : i # j => rows[i][4] # rows[j][4]

\* three series are stored and a save of a stored URL has just been refused
C1_Witness ==
  /\ Len(DataRows(file)) = 3
  /\ last.op = "save_to_excel"
  /\ \E i \in 1..3 : DataRows(file)[i][4] = last.data[1].url
  /\ last.ret = FALSE

\* C2: once a record with URL u was saved successfully, a later save of a
\* record with URL u returns False, does not write the file, and the file has
\* exactly one data row for u, with the contents of the first save.
C2_DuplicateSaveIsNoOp ==
  (last.op = "save_to_excel" /\ last.data[1].url \in UrlsOf(last.saved_before)) =>
    LET u == last.data[1].url
        rows == DataRows(file)
        first == CHOOSE k \in 1..Len(last.saved_before) :
                   /\ last.saved_before[k].url = u
                   /\ \A m \in 1..(k - 1) : last.saved_before[m].url # u
    IN /\ last.ret = FALSE
       /\ last.wrote = FALSE
       /\ file = last.before
       /\ Cardinality({i \in 1..Len(rows) : rows[i][4] = u}) = 1
       /\ \E i \in 1..Len(rows) : rows[i] = RowOf(last.saved_before[first])

\* a duplicate save with another title, while two series are stored
C2_Witness ==
  /\ last.op = "save_to_excel"
  /\ Len(last.saved_before) = 2
  /\ last.saved_before[1].url = last.data[1].url
  /\ last.saved_before[1].title # last.data[1].title
  /\ last.ret = FALSE

\* C3: row 1 is the header, the data rows are the successfully saved records in
\* the order of their saves, and a save leaves the rows written before it
\* unchanged, adding at most one row at the end.
C3_AppendOnly ==
  /\ file = None <=> saved = <<>>
  /\ file # None =>
       /\ file[1].rows[1] = << <<"T","i","t","l","e">>, <<"R","a","t","i","n","g">>,
                               <<"G","e","n","r","e","s">>, <<"U","R","L">> >>
       /\ Len(DataRows(file)) = Len(saved)
       /\ \A k \in 1..Len(saved) : DataRows(file)[k] = RowOf(saved[k])
  /\ (last.op = "save_to_excel" /\ last.before # None) =>
       /\ file # None
       /\ Len(file[1].rows) =
            Len(last.before[1].rows) + (IF last.ret THEN 1 ELSE 0)
       /\ SubSeq(file[1].rows, 1, Len(last.before[1].rows)) = last.before[1].rows

\* the third series has just been appended
C3_Witness ==
  /\ Len(DataRows(file)) = 3
  /\ last.op = "save_to_excel"
  /\ last.ret = TRUE
  /\ DataRows(file)[3] = RowOf(last.data[1])
  /\ DataRows(file)[1][4] # DataRows(file)[2][4]

\* C9: no column width written is greater than 50.
C9_WidthCapped ==
  file # None => \A c \in 1..4 : file[1].widths[c] <= 50

(***************************************************************************)
(* Properties of the driver (under Spec).                                  *)
(***************************************************************************)
Events(op, i) == {p \in 1..Len(log) : log[p].op = op /\ log[p].i = i}
Spaces(n) == [k \in 1..n |-> " "]

\* the command line as one text, and its k-th comma-separated piece
Input == Join(<<" ">>, args.series)
Commas == {p \in 1..Len(Input) : Input[p] = ","}
Piece(k) ==
  LET from == IF k = 1 THEN 0 ELSE CHOOSE p \in Commas : Rank(Commas, p) = k - 1
      to == IF k = Cardinality(Commas) + 1 THEN Len(Input) + 1
            ELSE CHOOSE p \in Commas : Rank(Commas, p) = k
  IN SubSeq(Input, from + 1, to - 1)

\* q is text with the whitespace at its two ends removed
Trimmed(q, text) ==
  /\ q = <<>> \/ (q[1] # " " /\ q[Len(q)] # " ")
  /\ \E a, b \in 0..Len(text) : text = Spaces(a) \o q \o Spaces(b)

\* C4: when the search for a name returns None, the lookup returns None with no
\* detail request, save_to_excel is not called for the name, and the file is
\* left as it was: main goes on to the next name or returns.
C4_NoResultNoWrite ==
  [][(pc = "search" /\ search_results' = None) =>
       /\ result' = None
       /\ file' = file
       /\ log' = Append(log, [op |-> "search", i |-> idx, q |-> series_list[idx],
                              ret |-> None])
       /\ \/ pc' = "done"
          \/ pc' = "search" /\ idx' = idx + 1]_vars

\* a search that found nothing, after an earlier name was stored
C4_Witness ==
  /\ file # None
  /\ log # <<>>
  /\ log[Len(log)].op = "search"
  /\ log[Len(log)].ret = None
  /\ log[Len(log)].i > 1
  /\ file[1].rows = <<Header>> \o
       [k \in 1..(Len(file[1].rows) - 1) |->
          RowOf(log[CHOOSE p \in 1..Len(log) :
                      /\ log[p].op = "save" /\ log[p].ret
                      /\ Cardinality({m \in 1..p : log[m].op = "save" /\ log[m].ret}) = k
                   ].data[1])]

\* C6: in multiple mode main looks up exactly the comma-separated pieces of the
\* input, trimmed, each once and in input order, whatever fails: every name is
\* searched, every name with a search result has its detail request, and every
\* name with a record has its save.
C6_EveryNameProcessed ==
  (pc = "done" /\ args.multiple) =>
    LET n == Cardinality(Commas) + 1
        searches == SelectSeq(log, LAMBDA e : e.op = "search")
    IN /\ Len(searches) = n
       /\ \A k \in 1..n :
            /\ searches[k].i = k
            /\ Trimmed(searches[k].q, Piece(k))
            /\ Cardinality(Events("detail", k)) =
                 (IF searches[k].ret # None THEN 1 ELSE 0)
            /\ Cardinality(Events("save", k)) =
                 (IF \E p \in Events("detail", k) : log[p].ret # None THEN 1 ELSE 0)
       /\ \A p \in 1..Len(log) : log[p].i \in 1..n

\* "a, b" and the like: the first name fails (its search, its detail request or
\* its save) and the second is stored
C6_Witness ==
  /\ pc = "done" /\ args.multiple
  /\ Cardinality(Commas) >= 1
  /\ \E p \in 1..Len(log) :
       /\ log[p].i = 1
       /\ \/ log[p].op = "save" /\ log[p].ret = FALSE
          \/ log[p].op # "save" /\ log[p].ret = None
       /\ \A m \in (p + 1)..Len(log) : log[m].i > 1
  /\ \E p \in Events("save", 2) : log[p].ret = TRUE
  /\ \E p \in Events("search", 2) : log[p].q # <<>> /\ log[p].q # Piece(2)

\* C7: the search for a name starts only after the name before it has been
\* processed to its end, its save attempt included when its lookup gave a
\* record; and the rows stored for earlier names stay in the file.
C7_OneNameAtATime ==
  /\ \A p \in 1..Len(log) :
       (log[p].op = "search" /\ log[p].i > 1) =>
         LET before == log[p].i - 1
         IN /\ \A m \in 1..Len(log) : log[m].i = before => m < p
            /\ \A m \in Events("detail", before) :
                 log[m].ret # None => \E v \in Events("save", before) : v < p
  /\ \A p \in 1..Len(log) :
       (log[p].op = "save" /\ log[p].ret = TRUE) =>
         /\ file # None
         /\ \E r \in 2..Len(file[1].rows) : file[1].rows[r] = RowOf(log[p].data[1])

\* the first name is stored, then the search for the second one fails
C7_Witness ==
  /\ Len(log) = 4
  /\ log[3].op = "save" /\ log[3].i = 1 /\ log[3].ret = TRUE
  /\ log[4].op = "search" /\ log[4].i = 2 /\ log[4].ret = None
  /\ file # None
  /\ file[1].rows[2] = RowOf(log[3].data[1])

====
